---- MODULE Spec2Model ----
(***************************************************************************)
(* Model of convert-py-to-notebook.py: create_notebook_cell and            *)
(* convert_py_to_ipynb_content.  A text is a sequence of characters; the   *)
(* control characters are written "LF" (\n), "CR" (\r), "FF" (\f), "SP"    *)
(* (space) and "TAB" (\t).  One call of convert_py_to_ipynb_content is      *)
(* followed statement by statement: validation, one step per iteration of   *)
(* the scan loop, the end-of-scan flush, and the return.                    *)
(***************************************************************************)
EXTENDS Naturals, Sequences, FiniteSets

\* ------------------------------------------------------------------ bounds

\* An input text is the concatenation of at most MaxPieces pieces.
MaxPieces == 4

\* ------------------------------------------------------ Python str methods

\* Characters at which str.splitlines() ends a line.
LineBoundary == {"LF", "CR", "FF"}

\* Characters str.strip() removes.
Whitespace == {"SP", "TAB", "LF", "CR", "FF"}

\* str.lower() on one character.
LowerChar(c) ==
    CASE c = "T" -> "t"
      [] c = "M" -> "m"
      [] c = "X" -> "x"
      [] OTHER -> c

\* str.lower()
lower(s) == [k \in 1..Len(s) |-> LowerChar(s[k])]

\* s[from:] for a 1-based position
From(s, from) == SubSeq(s, from, Len(s))

\* str.splitlines(True): cur holds the characters of the line being read.
\* CR LF together end one line; a last line without terminator is kept.
RECURSIVE SplitRest(_, _)
SplitRest(s, cur) ==
    IF s = <<>>
    THEN IF cur = <<>> THEN <<>> ELSE <<cur>>
    ELSE IF Head(s) = "CR" /\ Len(s) >= 2 /\ s[2] = "LF"
    THEN <<cur \o <<"CR", "LF">>>> \o SplitRest(From(s, 3), <<>>)
    ELSE IF Head(s) \in LineBoundary
    THEN <<Append(cur, Head(s))>> \o SplitRest(Tail(s), <<>>)
    ELSE SplitRest(Tail(s), Append(cur, Head(s)))

splitlines(s) == SplitRest(s, <<>>)

\* str.lstrip()
RECURSIVE lstrip(_)
lstrip(s) ==
    IF s # <<>> /\ Head(s) \in Whitespace THEN lstrip(Tail(s)) ELSE s

\* str.rstrip()
RECURSIVE rstrip(_)
rstrip(s) ==
    IF s # <<>> /\ s[Len(s)] \in Whitespace
    THEN rstrip(SubSeq(s, 1, Len(s) - 1))
    ELSE s

\* str.strip()
strip(s) == lstrip(rstrip(s))

\* str.rstrip('\n'): removes every trailing line feed and nothing else
RECURSIVE rstrip_nl(_)
rstrip_nl(s) ==
    IF s # <<>> /\ s[Len(s)] = "LF"
    THEN rstrip_nl(SubSeq(s, 1, Len(s) - 1))
    ELSE s

\* str.startswith(prefix)
startswith(s, prefix) ==
    Len(prefix) <= Len(s) /\ SubSeq(s, 1, Len(prefix)) = prefix

\* sub in s
contains(s, sub) ==
    \E k \in 0..(Len(s) - Len(sub)) : SubSeq(s, k + 1, k + Len(sub)) = sub

\* The literal '[markdown]' of the type hint.
MarkdownMarker == <<"[", "m", "a", "r", "k", "d", "o", "w", "n", "]">>

\* ------------------------------------------------------ create_notebook_cell

\* Variant of ProcessedSource: rstrip() in place of rstrip('\n').
ProcessedSource_rstrip(source_lines) ==
    LET processed ==
            [k \in 1..Len(source_lines) |->
                Append(rstrip(source_lines[k]), "LF")]
    IN  IF processed = <<>>
        THEN processed
        ELSE [processed EXCEPT ![Len(processed)] = rstrip(@)]

\* Variant of ProcessedSource: the last line keeps its line feed.
ProcessedSource_keep_last(source_lines) ==
    [k \in 1..Len(source_lines) |->
        Append(rstrip_nl(source_lines[k]), "LF")]

\* processed_source: every line re-terminated by one line feed, the last
\* line's line feed removed again.
ProcessedSource(source_lines) ==
    LET processed ==
            [k \in 1..Len(source_lines) |->
                Append(rstrip_nl(source_lines[k]), "LF")]
    IN  IF processed = <<>>
        THEN processed
        ELSE [processed EXCEPT ![Len(processed)] = rstrip_nl(@)]

\* The cell structure; only code cells carry execution_count and outputs.
create_notebook_cell(type, source_lines) ==
    [cell_type |-> type,
     source |-> ProcessedSource(source_lines),
     has_outputs |-> (type = "code")]

\* ----------------------------------------------- convert_py_to_ipynb_content

\* Variant of DelimiterRejected: the test made on the untrimmed delimiter.
DelimiterRejected_untrimmed(delimiter) == delimiter = <<>>

\* The validity test of the delimiter: "if not cleaned_delimiter".
DelimiterRejected(delimiter) == strip(delimiter) = <<>>

\* Variant of IsDelimiterLine: the delimiter anywhere in the line.
IsDelimiterLine_anywhere(line, cleaned) == contains(line, cleaned)

\* The test of the scan loop: line.strip().startswith(cleaned_delimiter).
IsDelimiterLine(line, cleaned) == startswith(strip(line), cleaned)

\* Variant of HintedType: the marker compared without lower().
HintedType_case_sensitive(line) ==
    IF contains(line, MarkdownMarker) THEN "markdown" ELSE "code"

\* The type hint: '[markdown]' in line.lower().
HintedType(line) ==
    IF contains(lower(line), MarkdownMarker) THEN "markdown" ELSE "code"

\* The local state of the scan before its first iteration.
ScanInit ==
    [cells |-> <<>>,
     current_cell_lines |-> <<>>,
     cell_type |-> "code",
     delimiter_found |-> FALSE,
     processed_first_line |-> FALSE]

\* The cells after the flush made at a delimiter line.
FlushedCells(st) ==
    IF st.current_cell_lines # <<>>
    THEN Append(st.cells,
                create_notebook_cell(st.cell_type, st.current_cell_lines))
    ELSE st.cells

\* Variant of DelimiterBranch: the type hint read before the flush.
DelimiterBranch_hint_first(st, line) ==
    [cells |-> FlushedCells([st EXCEPT !.cell_type = HintedType(line)]),
     current_cell_lines |-> <<line>>,
     cell_type |-> HintedType(line),
     delimiter_found |-> TRUE,
     processed_first_line |-> TRUE]

\* Variant of DelimiterBranch: processed_first_line left as it was.
DelimiterBranch_unmarked(st, line) ==
    [cells |-> FlushedCells(st),
     current_cell_lines |-> <<line>>,
     cell_type |-> HintedType(line),
     delimiter_found |-> TRUE,
     processed_first_line |-> st.processed_first_line]

\* The branch of the loop body taken at a delimiter line.
DelimiterBranch(st, line) ==
    [cells |-> FlushedCells(st),
     current_cell_lines |-> <<line>>,
     cell_type |-> HintedType(line),
     delimiter_found |-> TRUE,
     processed_first_line |-> TRUE]

\* The branch of the loop body taken at any other line.
ContentBranch(st, line) ==
    [st EXCEPT !.current_cell_lines = Append(@, line),
               !.processed_first_line = TRUE]

\* The condition under which the last cell is appended after the loop.
EmitsFinalCell(st) ==
    st.current_cell_lines # <<>>
        \/ (st.delimiter_found /\ ~st.processed_first_line)

\* Variant of FinalCells: the last cell appended unconditionally.
FinalCells_always(st) ==
    Append(st.cells, create_notebook_cell(st.cell_type, st.current_cell_lines))

\* The cells after the end-of-scan flush.
FinalCells(st) ==
    IF EmitsFinalCell(st)
    THEN Append(st.cells,
                create_notebook_cell(st.cell_type, st.current_cell_lines))
    ELSE st.cells

\* Variant of NotFoundWarning: the test "and lines" left out.
NotFoundWarning_any_input(found, ls, n) == ~found /\ n <= 1

\* The condition of the 'delimiter not found' warning.
NotFoundWarning(found, ls, n) == ~found /\ ls # <<>> /\ n <= 1

\* Variant of ReturnedFlag: no override.
ReturnedFlag_no_override(found, warn) == found

\* The flag returned: the override made when the warning is shown.
ReturnedFlag(found, warn) == warn \/ found

\* The whole scan as a function of the lines: the loop, then the final flush.
RECURSIVE ScanFrom(_, _, _)
ScanFrom(st, ls, cleaned) ==
    IF ls = <<>>
    THEN st
    ELSE ScanFrom(IF IsDelimiterLine(Head(ls), cleaned)
                  THEN DelimiterBranch(st, Head(ls))
                  ELSE ContentBranch(st, Head(ls)),
                  Tail(ls), cleaned)

\* The cells of the document built for a text and a valid delimiter.
ConvertedCells(text, delimiter) ==
    FinalCells(ScanFrom(ScanInit, splitlines(text), strip(delimiter)))

\* ------------------------------------------------------------------ inputs

Pieces ==
    { <<"#", "t">>, <<"#", "T">>, <<"x">>, <<"SP">>, <<"LF">>, <<"CR">>,
      <<"FF">>, <<"[", "M", "a", "r", "k", "d", "o", "w", "n", "]">> }

RECURSIVE TextsOf(_)
TextsOf(n) ==
    IF n = 0
    THEN {<<>>}
    ELSE LET shorter == TextsOf(n - 1)
         IN  shorter \cup {t \o p : t \in shorter, p \in Pieces}

Texts == TextsOf(MaxPieces)

Delimiters ==
    { <<>>, <<"SP">>, <<"#", "t">>, <<"SP", "#", "t", "LF">> }

\* ------------------------------------------------------------------- state

VARIABLES
    py_content,            \* argument: the script text
    delimiter_string,      \* argument: the delimiter as entered
    pc,                    \* "call", "loop", "return", "done"
    lines,                 \* py_content.splitlines(True)
    cleaned_delimiter,     \* delimiter_string.strip()
    cells,                 \* notebook["cells"]
    current_cell_lines,
    cell_type,
    delimiter_found,
    processed_first_line,
    pos,                   \* number of lines the loop has consumed
    num_cells,
    warnings,              \* st.warning calls made
    errors,                \* st.error calls made
    ret                    \* the returned tuple

vars ==
    <<py_content, delimiter_string, pc, lines, cleaned_delimiter, cells,
      current_cell_lines, cell_type, delimiter_found, processed_first_line,
      pos, num_cells, warnings, errors, ret>>

\* The scan's local variables as one record.
LoopState ==
    [cells |-> cells,
     current_cell_lines |-> current_cell_lines,
     cell_type |-> cell_type,
     delimiter_found |-> delimiter_found,
     processed_first_line |-> processed_first_line]

\* The returned tuple; notebook_json is <<>> for None and otherwise holds the
\* document that json.dumps serialises.
NoReturn == [returned |-> FALSE, notebook_json |-> <<>>, num_cells |-> 0,
             delimiter_found |-> FALSE]

ErrorReturn == [returned |-> TRUE, notebook_json |-> <<>>, num_cells |-> 0,
                delimiter_found |-> FALSE]

Init ==
    /\ py_content \in Texts
    /\ delimiter_string \in Delimiters
    /\ pc = "call"
    /\ lines = <<>>
    /\ cleaned_delimiter = <<>>
    /\ cells = <<>>
    /\ current_cell_lines = <<>>
    /\ cell_type = "code"
    /\ delimiter_found = FALSE
    /\ processed_first_line = FALSE
    /\ pos = 0
    /\ num_cells = 0
    /\ warnings = {}
    /\ errors = {}
    /\ ret = NoReturn

\* Lines 35-40: split, trim, and the early return on an unusable delimiter.
RejectDelimiter ==
    /\ pc = "call"
    /\ DelimiterRejected(delimiter_string)
    /\ lines' = splitlines(py_content)
    /\ cleaned_delimiter' = strip(delimiter_string)
    /\ errors' = errors \cup {"invalid_delimiter"}
    /\ ret' = ErrorReturn
    /\ pc' = "done"
    /\ UNCHANGED <<py_content, delimiter_string, cells, current_cell_lines,
                   cell_type, delimiter_found, processed_first_line, pos,
                   num_cells, warnings>>

\* Lines 35-70: split, trim, build the empty notebook and the scan's locals.
StartScan ==
    /\ pc = "call"
    /\ ~DelimiterRejected(delimiter_string)
    /\ lines' = splitlines(py_content)
    /\ cleaned_delimiter' = strip(delimiter_string)
    /\ cells' = ScanInit.cells
    /\ current_cell_lines' = ScanInit.current_cell_lines
    /\ cell_type' = ScanInit.cell_type
    /\ delimiter_found' = ScanInit.delimiter_found
    /\ processed_first_line' = ScanInit.processed_first_line
    /\ pos' = 0
    /\ pc' = "loop"
    /\ UNCHANGED <<py_content, delimiter_string, num_cells, warnings, errors,
                   ret>>

\* The assignment of a loop-state record to the scan's locals.
Assign(st) ==
    /\ cells' = st.cells
    /\ current_cell_lines' = st.current_cell_lines
    /\ cell_type' = st.cell_type
    /\ delimiter_found' = st.delimiter_found
    /\ processed_first_line' = st.processed_first_line

\* Lines 72-87: one iteration at a delimiter line.
ScanDelimiterLine ==
    /\ pc = "loop"
    /\ pos < Len(lines)
    /\ IsDelimiterLine(lines[pos + 1], cleaned_delimiter)
    /\ Assign(DelimiterBranch(LoopState, lines[pos + 1]))
    /\ pos' = pos + 1
    /\ UNCHANGED <<py_content, delimiter_string, pc, lines, cleaned_delimiter,
                   num_cells, warnings, errors, ret>>

\* Lines 72-74, 89-92: one iteration at any other line.
ScanContentLine ==
    /\ pc = "loop"
    /\ pos < Len(lines)
    /\ ~IsDelimiterLine(lines[pos + 1], cleaned_delimiter)
    /\ Assign(ContentBranch(LoopState, lines[pos + 1]))
    /\ pos' = pos + 1
    /\ UNCHANGED <<py_content, delimiter_string, pc, lines, cleaned_delimiter,
                   num_cells, warnings, errors, ret>>

\* Lines 94-101: the last cell, or the 'empty input' warning, and the count.
EndOfScan ==
    /\ pc = "loop"
    /\ pos = Len(lines)
    /\ cells' = FinalCells(LoopState)
    /\ warnings' = IF ~EmitsFinalCell(LoopState) /\ lines = <<>>
                   THEN warnings \cup {"empty_input"}
                   ELSE warnings
    /\ num_cells' = Len(cells')
    /\ pc' = "return"
    /\ UNCHANGED <<py_content, delimiter_string, lines, cleaned_delimiter,
                   current_cell_lines, cell_type, delimiter_found,
                   processed_first_line, pos, errors, ret>>

\* Lines 103-112: the 'not found' warning with its override of the flag, and
\* the return of the serialised notebook.
Return ==
    /\ pc = "return"
    /\ LET warn == NotFoundWarning(delimiter_found, lines, num_cells)
       IN  /\ warnings' = IF warn
                          THEN warnings \cup {"delimiter_not_found"}
                          ELSE warnings
           /\ delimiter_found' = ReturnedFlag(delimiter_found, warn)
    /\ ret' = [returned |-> TRUE,
               notebook_json |->
                   <<[cells |-> cells, nbformat |-> 4, nbformat_minor |-> 5]>>,
               num_cells |-> num_cells,
               delimiter_found |-> delimiter_found']
    /\ pc' = "done"
    /\ UNCHANGED <<py_content, delimiter_string, lines, cleaned_delimiter,
                   cells, current_cell_lines, cell_type, processed_first_line,
                   pos, num_cells, errors>>

Next ==
    \/ RejectDelimiter
    \/ StartScan
    \/ ScanDelimiterLine
    \/ ScanContentLine
    \/ EndOfScan
    \/ Return

Spec == Init /\ [][Next]_vars

\* ------------------------------------------------- vocabulary of the claims

\* The call passed validation and returned a document.
Succeeded == pc = "done" /\ ret.notebook_json # <<>>

\* The call returned the failure tuple.
Failed == pc = "done" /\ ret = ErrorReturn

\* Nothing but whitespace (or nothing at all).
AllWhitespace(s) == \A k \in 1..Len(s) : s[k] \in Whitespace

\* d occurs in line right after the line's leading whitespace.
AnchoredAt(line, d) ==
    \E k \in 0..Len(line) :
        /\ \A j \in 1..k : line[j] \in Whitespace
        /\ k + Len(d) <= Len(line)
        /\ \A j \in 1..Len(d) : line[k + j] = d[j]

\* d occurs somewhere in line, in any letter case.
OccursAnyCase(line, d) ==
    \E k \in 0..(Len(line) - Len(d)) :
        \A j \in 1..Len(d) : LowerChar(line[k + j]) = LowerChar(d[j])

\* The line is a delimiter line of this call.
DelimiterLine(line) == AnchoredAt(line, cleaned_delimiter)

\* The indices of the delimiter lines of the input.
DelimiterLines == {k \in 1..Len(lines) : DelimiterLine(lines[k])}

\* A line without the line feeds at its end.
RECURSIVE WithoutLineFeeds(_)
WithoutLineFeeds(s) ==
    IF s = <<>> \/ s[Len(s)] # "LF"
    THEN s
    ELSE WithoutLineFeeds(SubSeq(s, 1, Len(s) - 1))

\* The concatenation of a sequence of sequences.
RECURSIVE Concat(_)
Concat(ss) == IF ss = <<>> THEN <<>> ELSE Head(ss) \o Concat(Tail(ss))

\* The stored lines of all cells, in order.
StoredLines(cs) == Concat([k \in 1..Len(cs) |-> cs[k].source])

\* The text rebuilt from the cells: the stored lines concatenated, the line
\* feed taken from each cell's last line put back.
Rebuilt(cs) ==
    Concat([k \in 1..Len(cs) |-> Concat(cs[k].source) \o <<"LF">>])

\* Every line of the text, the last one included, ends with a line feed.
EveryLineEndsLF(text) ==
    text # <<>> =>
        /\ text[Len(text)] = "LF"
        /\ \A k \in 1..Len(text) :
               text[k] \in LineBoundary \ {"LF"} =>
                   text[k] = "CR" /\ k < Len(text) /\ text[k + 1] = "LF"

\* The text without its k-th character.
Without(text, k) == SubSeq(text, 1, k - 1) \o SubSeq(text, k + 1, Len(text))

\* -------------------------------------------------------------------- C1

\* C1 (as stated): the stored cells determine the input text, so that some
\* reversal of the normalisation gives back every input exactly.  If one
\* did, no text with a character removed could yield the same cells.
C1_RoundTripEveryInput ==
    Succeeded =>
        \A k \in 1..Len(py_content) :
            ConvertedCells(Without(py_content, k), delimiter_string) # cells

\* C1 (amended): putting back the line feed removed from each cell's last
\* line and concatenating the stored lines reproduces the input text exactly
\* when every input line ends with a line feed (LF or CR LF); with a line
\* that has no terminator or ends with a lone CR or FF the result differs.
C1_RoundTripLineFeedTerminated ==
    Succeeded => (Rebuilt(cells) = py_content <=> EveryLineEndsLF(py_content))

C1_Witness ==
    /\ Succeeded
    /\ Len(cells) >= 2
    /\ \E k \in 1..Len(lines) : lines[k] = <<"CR", "LF">>
    /\ Rebuilt(cells) = py_content

\* -------------------------------------------------------------------- C2

\* C2: a delimiter that is empty after trimming makes the call fail for
\* every text with (None, 0, False), before the scan starts: no line is
\* consumed, no cell and no document exists, no warning is shown.
C2_InvalidDelimiterFailsFast ==
    (pc # "call" /\ AllWhitespace(delimiter_string)) =>
        /\ Failed
        /\ "invalid_delimiter" \in errors
        /\ cells = <<>> /\ current_cell_lines = <<>> /\ pos = 0
        /\ num_cells = 0 /\ warnings = {}

C2_Witness ==
    /\ Failed
    /\ delimiter_string = <<"SP">>
    /\ Len(lines) >= 2

\* -------------------------------------------------------------------- C3

\* C3: an iteration of the scan starts a new cell (flushes the accumulated
\* lines and restarts the accumulator with the line) if and only if the line,
\* after its leading whitespace, begins with the trimmed delimiter in the
\* same letter case; any other line is appended to the current cell.
C3_Step ==
    (pc = "loop" /\ pc' = "loop") =>
        LET line == lines[pos + 1] IN
        IF AnchoredAt(line, strip(delimiter_string))
        THEN /\ current_cell_lines' = <<line>>
             /\ delimiter_found'
             /\ Len(cells') = Len(cells)
                    + (IF current_cell_lines = <<>> THEN 0 ELSE 1)
        ELSE /\ current_cell_lines' = Append(current_cell_lines, line)
             /\ cells' = cells
             /\ delimiter_found' = delimiter_found

C3_DelimiterPrefixSemantics == [][C3_Step]_vars

C3_Witness ==
    /\ Succeeded
    /\ Len(cells) = 2
    /\ Len(lines) = 2
    /\ ~DelimiterLine(lines[1])
    /\ OccursAnyCase(lines[1], cleaned_delimiter)
    /\ lines[2][1] = "SP"

\* -------------------------------------------------------------------- C4

\* The marker '[markdown]' occurs in the line in some letter case.
HasMarkdownMarker(line) == OccursAnyCase(line, MarkdownMarker)

\* The type a cell must have, given its first line.
TypeByFirstLine(first) ==
    IF DelimiterLine(first) /\ HasMarkdownMarker(first)
    THEN "markdown"
    ELSE "code"

\* C4: the type of every cell, emitted or still accumulating, is markdown if
\* its first line is a delimiter line containing '[markdown]' in any letter
\* case and code otherwise; a marker elsewhere changes nothing.
C4_TypeFromDelimiterLine ==
    pc \in {"loop", "return", "done"} /\ ~AllWhitespace(delimiter_string) =>
        /\ \A k \in 1..Len(cells) :
               /\ cells[k].source # <<>>
               /\ cells[k].cell_type = TypeByFirstLine(cells[k].source[1])
        /\ cell_type = IF current_cell_lines = <<>>
                       THEN "code"
                       ELSE TypeByFirstLine(current_cell_lines[1])

C4_Witness ==
    /\ Succeeded
    /\ Len(cells) = 2
    /\ cells[1].cell_type = "code"
    /\ HasMarkdownMarker(cells[1].source[1])
    /\ cells[2].cell_type = "markdown"

\* -------------------------------------------------------------------- C5

\* C5: the 'delimiter not found' warning is shown exactly by the successful
\* calls whose text is non-empty and has no delimiter line, and those calls
\* return one code cell holding every input line in order.
C5_NoDelimiterPresent ==
    /\ "delimiter_not_found" \in warnings => Succeeded
    /\ Succeeded =>
           LET none == py_content # <<>> /\ DelimiterLines = {} IN
           /\ "delimiter_not_found" \in warnings <=> none
           /\ none =>
                  /\ ret.num_cells = 1
                  /\ Len(ret.notebook_json[1].cells) = 1
                  /\ cells[1].cell_type = "code"
                  /\ Len(cells[1].source) = Len(lines)
                  /\ \A k \in 1..Len(lines) :
                         WithoutLineFeeds(cells[1].source[k])
                             = WithoutLineFeeds(lines[k])

C5_Witness ==
    /\ Succeeded
    /\ "delimiter_not_found" \in warnings
    /\ Len(lines) >= 3
    /\ ret.num_cells = 1

\* -------------------------------------------------------------------- C6

\* C6: a successful call returns zero cells exactly when the text is empty,
\* and the 'empty input' warning is shown exactly by those calls.
C6_EmptyInput ==
    /\ "empty_input" \in warnings =>
           py_content = <<>> /\ ~AllWhitespace(delimiter_string)
    /\ Succeeded =>
           /\ ret.num_cells = Len(ret.notebook_json[1].cells)
           /\ ret.num_cells = 0 <=> py_content = <<>>
           /\ "empty_input" \in warnings <=> py_content = <<>>

C6_Witness ==
    /\ Succeeded
    /\ py_content = <<>>
    /\ ret.num_cells = 0
    /\ warnings = {"empty_input"}

\* -------------------------------------------------------------------- C7

\* The line ends with exactly one line feed.
EndsWithOneLF(s) ==
    /\ s # <<>>
    /\ s[Len(s)] = "LF"
    /\ Len(s) >= 2 => s[Len(s) - 1] # "LF"

\* C7: in every cell, every stored line but the last ends with exactly one
\* line feed and the last stored line ends with none.
C7_LineStorage ==
    \A c \in 1..Len(cells) :
        LET src == cells[c].source IN
        \A k \in 1..Len(src) :
            IF k < Len(src)
            THEN EndsWithOneLF(src[k])
            ELSE src[k] = <<>> \/ src[k][Len(src[k])] # "LF"

C7_Witness ==
    /\ Succeeded
    /\ Len(cells) = 1
    /\ Len(lines) = 3
    /\ lines[1][Len(lines[1])] = "CR"
    /\ lines[2][Len(lines[2])] = "LF"
    /\ lines[3][Len(lines[3])] = "x"

\* -------------------------------------------------------------------- C8

\* At a delimiter line the accumulated lines leave as a cell of the type
\* that was current before the line was examined, and the line becomes the
\* first line of the next cell.
C8_Step ==
    (pc = "loop" /\ pc' = "loop" /\ DelimiterLine(lines[pos + 1])) =>
        /\ current_cell_lines' = <<lines[pos + 1]>>
        /\ current_cell_lines # <<>> =>
               /\ Len(cells') = Len(cells) + 1
               /\ SubSeq(cells', 1, Len(cells)) = cells
               /\ cells'[Len(cells')].cell_type = cell_type
               /\ Len(cells'[Len(cells')].source) = Len(current_cell_lines)
               /\ \A k \in 1..Len(current_cell_lines) :
                      WithoutLineFeeds(cells'[Len(cells')].source[k])
                          = WithoutLineFeeds(current_cell_lines[k])

\* In the returned document the cells hold the input lines in source order,
\* every cell after the first begins with a delimiter line, no cell holds a
\* delimiter line after its first line, and when the first input line is no
\* delimiter line there is one cell more than there are delimiter lines.
C8_Document ==
    Succeeded =>
        /\ Len(StoredLines(cells)) = Len(lines)
        /\ \A k \in 1..Len(lines) :
               WithoutLineFeeds(StoredLines(cells)[k])
                   = WithoutLineFeeds(lines[k])
        /\ \A c \in 2..Len(cells) : DelimiterLine(cells[c].source[1])
        /\ \A c \in 1..Len(cells) :
               \A k \in 2..Len(cells[c].source) :
                   ~DelimiterLine(cells[c].source[k])
        /\ (lines # <<>> /\ 1 \notin DelimiterLines) =>
               ret.num_cells = Cardinality(DelimiterLines) + 1

\* C8: cell boundaries and flush ordering.
C8_FlushOrdering == []C8_Document /\ [][C8_Step]_vars

C8_Witness ==
    /\ Succeeded
    /\ ret.num_cells = 2
    /\ Cardinality(DelimiterLines) = 2
    /\ cells[1].cell_type = "markdown"
    /\ cells[2].cell_type = "code"

\* -------------------------------------------------------------------- C9

\* In every state of the scan a delimiter has been found only if a line has
\* been processed, the accumulator is non-empty once a line has been
\* processed, and no cell has an empty list of source lines.
C9_Scan ==
    pc \in {"loop", "return", "done"} =>
        /\ delimiter_found => processed_first_line
        /\ pos > 0 <=> processed_first_line
        /\ pos > 0 => current_cell_lines # <<>>
        /\ \A c \in 1..Len(cells) : cells[c].source # <<>>

\* The end of the scan emits a cell exactly when the accumulator is
\* non-empty.
C9_Step ==
    (pc = "loop" /\ pc' = "return") =>
        IF current_cell_lines # <<>>
        THEN Len(cells') = Len(cells) + 1
        ELSE cells' = cells

\* C9: the clause 'delimiter found and no line processed' is unreachable.
C9_DeadClause == []C9_Scan /\ [][C9_Step]_vars

C9_Witness ==
    /\ pc = "return"
    /\ delimiter_found
    /\ Len(lines) = 1
    /\ num_cells = 1

\* -------------------------------------------------------------------- C10

\* C10: a successful call returns the flag true exactly when the text is
\* non-empty, whether or not a line matched; a failed call returns false.
C10_ReturnedFlag ==
    /\ Succeeded => (ret.delimiter_found <=> py_content # <<>>)
    /\ Failed => ~ret.delimiter_found

C10_Witness ==
    /\ Succeeded
    /\ DelimiterLines = {}
    /\ ret.delimiter_found
    /\ \E k \in 1..Len(lines) : OccursAnyCase(lines[k], cleaned_delimiter)

====
